---- MODULE Spec2Model ----
(***************************************************************************)
(* A model of lisa2's results table (src/utils.py, class LISA_Results) and *)
(* of the public-data LISA run (src/lisa/lisa_public_data/lisa.py, class   *)
(* LISA).  Python lists are sequences; a Python index k is 0-based, so the *)
(* element it names is s[k + 1].                                           *)
(***************************************************************************)
EXTENDS Integers, Sequences, FiniteSets, TLC

\* ------------------------------------------------------------- bounds
MaxRows == 2
MaxVal == 2
MaxSel == 2
MaxAssays == 2
MaxCalls == 2
MaxCores == 11
MaxCpu == 12
MaxGenes == 2
MaxFactors == 2
MaxColLength == 2
MaxColumns == 2
MaxEntries == 2

\* Column names a caller uses; "Rank" is the name sortby itself writes.
Names == {"a", "Rank"}
\* Cell values: integers, ordered as Python orders them.
Vals == 1..MaxVal

VARIABLES results_headers, results_rows, call, ret, lisa, host, ncalls

tableVars == <<results_headers, results_rows>>
runVars == <<lisa, host, ncalls>>
vars == <<results_headers, results_rows, call, ret, lisa, host, ncalls>>

\* ------------------------------------------------------------ helpers
Range(s) == {s[i] : i \in DOMAIN s}

Min2(a, b) == IF a <= b THEN a ELSE b

SetMin(S) == CHOOSE x \in S : \A y \in S : x <= y

SeqsUpTo(S, n) == UNION {[1..k -> S] : k \in 0..n}

InjSeqs(S) == {s \in SeqsUpTo(S, Cardinality(S)) :
                 \A i, j \in DOMAIN s : s[i] = s[j] => i = j}

\* row[k] of Python, for a k known to be in range
At(row, k) == row[k + 1]

\* list.insert(i, x) for i >= 0: an index past the end appends
PyInsert(s, i, x) ==
  LET pos == Min2(i, Len(s))
  IN  SubSeq(s, 1, pos) \o <<x>> \o SubSeq(s, pos + 1, Len(s))

\* [list(l) for l in zip(*table)]: zip stops at the shortest sequence, and
\* zip of nothing yields nothing
Transpose(table) ==
  IF table = <<>> THEN <<>>
  ELSE LET n == SetMin({Len(table[i]) : i \in DOMAIN table})
       IN  [j \in 1..n |-> [i \in 1..Len(table) |-> table[i][j]]]

\* LISA_Results(keys, columns)
NewResults(keys, columns) == [headers |-> keys, rows |-> Transpose(columns)]

\* get_colnum: the 0-based position of the first header equal to colname;
\* -1 stands for the IndexError it raises when there is none
GetColnum(headers, colname) ==
  IF colname \in Range(headers)
  THEN SetMin({i \in DOMAIN headers : headers[i] = colname}) - 1
  ELSE -1

\* update_column that keeps only the rows it has paired with a value
UpdateColumnZipped(t, name, data) ==
  LET colnum == GetColnum(t.headers, name)
      n == Min2(Len(t.rows), Len(data))
      bad == {i \in 1..n : Len(t.rows[i]) <= colnum}
  IN  IF colnum = -1 THEN [t |-> t, exc |-> "IndexError"]
      ELSE IF bad # {} THEN [t |-> t, exc |-> "IndexError"]
      ELSE [t |-> [headers |-> t.headers,
                   rows |-> [i \in 1..n |-> [t.rows[i] EXCEPT ![colnum + 1] = data[i]]]],
            exc |-> "none"]

\* update_column: rows are written in order, so a row too short for colnum
\* raises IndexError after the rows before it were written
UpdateColumn(t, name, data) ==
  LET colnum == GetColnum(t.headers, name)
      n == Min2(Len(t.rows), Len(data))
      bad == {i \in 1..n : Len(t.rows[i]) <= colnum}
      stop == IF bad = {} THEN n + 1 ELSE SetMin(bad)
  IN  IF colnum = -1 THEN [t |-> t, exc |-> "IndexError"]
      ELSE [t |-> [headers |-> t.headers,
                   rows |-> [i \in 1..Len(t.rows) |->
                              IF i < stop
                              THEN [t.rows[i] EXCEPT ![colnum + 1] = data[i]]
                              ELSE t.rows[i]]],
            exc |-> IF bad = {} THEN "none" ELSE "IndexError"]

\* add_column with the duplicate-name assertion left out
AddColumnNoAssert(t, name, data, column_num) ==
  LET n == Min2(Len(t.rows), Len(data))
  IN  [t |-> [headers |-> IF column_num = -1 THEN Append(t.headers, name)
                          ELSE PyInsert(t.headers, column_num, name),
              rows |-> [i \in 1..Len(t.rows) |->
                         IF i > n THEN t.rows[i]
                         ELSE IF column_num = -1 THEN Append(t.rows[i], data[i])
                         ELSE PyInsert(t.rows[i], column_num, data[i])]],
       exc |-> "none"]

\* add_column: zip(self.results_rows, data) stops at the shorter of the two
AddColumn(t, name, data, column_num) ==
  LET n == Min2(Len(t.rows), Len(data))
  IN  IF name \in Range(t.headers) THEN [t |-> t, exc |-> "AssertionError"]
      ELSE [t |-> [headers |-> IF column_num = -1 THEN Append(t.headers, name)
                               ELSE PyInsert(t.headers, column_num, name),
                   rows |-> [i \in 1..Len(t.rows) |->
                              IF i > n THEN t.rows[i]
                              ELSE IF column_num = -1
                                   THEN Append(t.rows[i], data[i])
                                   ELSE PyInsert(t.rows[i], column_num, data[i])]],
            exc |-> "none"]

\* an insertion that puts a row before the rows of equal key
InsertBeforeEqual(sorted, r, k) ==
  LET pos == Cardinality({i \in DOMAIN sorted : At(sorted[i], k) < At(r, k)})
  IN  SubSeq(sorted, 1, pos) \o <<r>> \o SubSeq(sorted, pos + 1, Len(sorted))

\* one step of sorted(): the row goes after every row whose key is not greater
InsertStable(sorted, r, k) ==
  LET pos == Cardinality({i \in DOMAIN sorted : At(sorted[i], k) <= At(r, k)})
  IN  SubSeq(sorted, 1, pos) \o <<r>> \o SubSeq(sorted, pos + 1, Len(sorted))

RECURSIVE PySorted(_, _)
\* sorted(rows, key = lambda col : col[k])
PySorted(rows, k) ==
  IF rows = <<>> THEN <<>>
  ELSE InsertStable(PySorted(SubSeq(rows, 1, Len(rows) - 1), k),
                    rows[Len(rows)], k)

\* ranks counted from 0
RowRanksFromZero(n) == [i \in 1..n |-> i - 1]

\* range(1, len(self) + 1)
RowRanks(n) == [i \in 1..n |-> i]

\* sortby: key is a column name (kind "str") or a 0-based column number
SortBy(t, key, add_rank) ==
  LET k == IF key.kind = "str" THEN GetColnum(t.headers, key.name) ELSE key.idx
      sorted == [headers |-> t.headers, rows |-> PySorted(t.rows, k)]
      row_ranks == RowRanks(Len(t.rows))
      upd == UpdateColumn(sorted, "Rank", row_ranks)
  IN  IF k = -1 THEN [t |-> t, exc |-> "IndexError"]
      ELSE IF \E i \in DOMAIN t.rows : Len(t.rows[i]) <= k
      THEN [t |-> t, exc |-> "IndexError"]
      ELSE IF ~add_rank THEN [t |-> sorted, exc |-> "none"]
      ELSE IF upd.exc = "IndexError" THEN AddColumn(upd.t, "Rank", row_ranks, 0)
      ELSE upd

\* subset: rows is a list of 0-based row numbers (an int is wrapped in a list)
Subset(t, rows) ==
  IF \E i \in DOMAIN rows : rows[i] >= Len(t.rows)
  THEN [exc |-> "IndexError", ret |-> [kind |-> "none"]]
  ELSE [exc |-> "none",
        ret |-> [kind |-> "table",
                 t |-> NewResults(t.headers,
                         Transpose([i \in DOMAIN rows |-> At(t.rows, rows[i])]))]]

RECURSIVE PyJoin(_, _)
\* sep.join(parts); a str is the sequence of its pieces
PyJoin(sep, parts) ==
  IF parts = <<>> THEN <<>>
  ELSE IF Len(parts) = 1 THEN parts[1]
  ELSE parts[1] \o <<sep>> \o PyJoin(sep, Tail(parts))

\* to_tsv
ToTsv(t, top_n) ==
  LET output_lines == Subset(t, [i \in 1..top_n |-> i - 1])
      o == output_lines.ret.t
      line(cells) == PyJoin("\t", [j \in DOMAIN cells |-> <<cells[j]>>])
      str(row) == [j \in DOMAIN row |-> ToString(row[j])]
  IN  IF output_lines.exc # "none" THEN output_lines
      ELSE [exc |-> "none",
            ret |-> [kind |-> "text",
                     text |-> PyJoin("\n",
                       <<line(o.headers)>> \o
                       [i \in DOMAIN o.rows |-> line(str(o.rows[i]))])]]

\* filter_rows: filter_func is the set of values it accepts
FilterRows(t, filter_func, colname) ==
  LET colnum == GetColnum(t.headers, colname)
      rownums == [i \in DOMAIN t.rows |-> i - 1]
      keep(rownum) == At(At(t.rows, rownum), colnum) \in filter_func
  IN  IF colnum = -1 THEN [exc |-> "IndexError", ret |-> [kind |-> "none"]]
      ELSE IF \E i \in DOMAIN t.rows : Len(t.rows[i]) <= colnum
      THEN [exc |-> "IndexError", ret |-> [kind |-> "none"]]
      ELSE Subset(t, SelectSeq(rownums, keep))

\* ------------------------------------------------------ the LISA run
\* Assay names a caller may pass, in Python's str order
KindOrder == <<"DNase", "Direct", "H3K27ac", "Unknown">>
AssayKinds == Range(KindOrder)

\* config.ini, [lisa_params] assays
ConfigAssays == {"Direct", "H3K27ac", "DNase"}
\* config.ini, [lisa_params] num_datasets_selected
num_datasets_selected == 10

\* The names bound in lisa.py's module namespace
ModuleNames == {"os", "LISA_Core", "PACKAGE_PATH", "REQURED_DATASET_VERSION",
                "base_config_path", "assays", "LR_BinarySearch_SampleSelectionModel",
                "LR_ChromatinModel", "np", "sparse", "multiprocessing",
                "configparser", "CONFIG_PATH", "_config", "LISA"}

\* The pieces of a format string: literal text, an escaped brace, a field
Lit(s) == [k |-> "lit", s |-> s]
LBrace == [k |-> "{{"]
RBrace == [k |-> "}}"]
Field == [k |-> "{}"]

RECURSIVE PyFormat(_, _)
\* template.format(*args): fields take the arguments in order, "{{" and "}}"
\* are the braces themselves
PyFormat(template, args) ==
  IF template = <<>> THEN <<>>
  ELSE LET h == Head(template)
       IN  IF h.k = "lit" THEN <<h.s>> \o PyFormat(Tail(template), args)
           ELSE IF h.k = "{{" THEN <<"{">> \o PyFormat(Tail(template), args)
           ELSE IF h.k = "}}" THEN <<"}">> \o PyFormat(Tail(template), args)
           ELSE <<Head(args)>> \o PyFormat(Tail(template), Tail(args))

\* 'An assay chosen by the user is not a valid choice: \{{}}'
InvalidChoiceTemplate ==
  <<Lit("An assay chosen by the user is not a valid choice: \\"), LBrace, RBrace>>
\* 'Invalid assay encountered: {}'
InvalidAssayTemplate == <<Lit("Invalid assay encountered: "), Field>>

CoresWarning == "WARNING: You've allocated {} cores with {} datasets selected."
FallbackWarning == "Cannot connect to cistrome server. Defaulting to \"basic\" RP map instead."

\* ------------------------------------------------- genes and factors
\* A name is the canonical symbol of gene i, another spelling of it (a synonym
\* or another casing), or, with gene 0, a name no gene has
Symbol(i) == [gene |-> i, form |-> "symbol"]
Synonym(i) == [gene |-> i, form |-> "synonym"]
NoGeneName == [gene |-> 0, form |-> "symbol"]
FactorNames == {Symbol(i) : i \in 1..MaxGenes} \cup
               {Synonym(i) : i \in 1..MaxGenes} \cup {NoGeneName}

\* self.all_genes: the canonical gene set, one location per gene
all_genes == [i \in 1..MaxGenes |-> [location |-> i, symbol |-> Symbol(i)]]

\* all_genes.match_user_provided_genes(names): the canonical genes some name
\* denotes; a name that denotes no gene is left out
MatchUserProvidedGenes(names) ==
  SelectSeq(all_genes, LAMBDA g : \E n \in DOMAIN names : names[n].gene = g.symbol.gene)
GetLocations(genes) == [i \in DOMAIN genes |-> genes[i].location]
GetSymbols(genes) == [i \in DOMAIN genes |-> genes[i].symbol]

\* dict(zip(keys, values)): the last value given for a key is the one kept
PyDict(keys, values) ==
  LET n == Min2(Len(keys), Len(values))
  IN  [k \in {keys[i] : i \in 1..n} |->
         values[CHOOSE i \in 1..n : keys[i] = k /\ \A j \in 1..n : keys[j] = k => j <= i]]

\* a mask that marks the rows whose location no factor gene has
GetFactorGeneMaskInverted(rp_map_locs, factor) ==
  LET factor_genes == MatchUserProvidedGenes(factor)
      loc_symbol_dict == PyDict(GetLocations(factor_genes), GetSymbols(factor_genes))
      mask == [i \in DOMAIN rp_map_locs |->
                 rp_map_locs[i] \notin Range(GetLocations(factor_genes))]
      masked == SelectSeq(rp_map_locs, LAMBDA loc : loc \in Range(GetLocations(factor_genes)))
  IN  [factor_gene_mask |-> mask,
       factor_mask_keys |-> [i \in DOMAIN masked |-> loc_symbol_dict[masked[i]]]]

\* _get_factor_gene_mask
GetFactorGeneMask(rp_map_locs, factor) ==
  LET factor_genes == MatchUserProvidedGenes(factor)
      loc_symbol_dict == PyDict(GetLocations(factor_genes), GetSymbols(factor_genes))
      mask == [i \in DOMAIN rp_map_locs |->
                 rp_map_locs[i] \in Range(GetLocations(factor_genes))]
      masked == SelectSeq(rp_map_locs, LAMBDA loc : loc \in Range(GetLocations(factor_genes)))
  IN  [factor_gene_mask |-> mask,
       factor_mask_keys |-> [i \in DOMAIN masked |-> loc_symbol_dict[masked[i]]]]

\* an order that keeps the names as they were first given
FirstGivenOrder(assays) == assays

\* sorted(list(set(assays)))
SortedSet(assays) == SelectSeq(KindOrder, LAMBDA a : a \in Range(assays))

\* _set_cores that leaves no core of the host out
SetCoresAllCpus(cores, cpu_count) ==
  LET max_cores == cpu_count
      c == IF cores <= -1 THEN max_cores ELSE cores
  IN  Min2(Min2(c, max_cores), num_datasets_selected)

\* _set_cores
SetCores(cores, cpu_count) ==
  LET max_cores == cpu_count - 1
      c == IF cores <= -1 THEN max_cores ELSE cores
  IN  Min2(Min2(c, max_cores), num_datasets_selected)

Raised(type, msg) == [phase |-> "failed", exc |-> type, msg |-> msg]

\* LISA.__init__
InitLISA(assays, cores, cpu_count) ==
  IF Len(assays) = 0
  THEN Raised("AssertionError", <<"Must provide at least one assay to run.">>)
  ELSE IF \E i \in DOMAIN assays : assays[i] \notin ConfigAssays
  THEN Raised("AssertionError", PyFormat(InvalidChoiceTemplate, <<"Direct,H3K27ac,DNase">>))
  ELSE IF SetCores(cores, cpu_count) = 0
  THEN Raised("ZeroDivisionError", <<"integer division or modulo by zero">>)
         @@ [cores |-> SetCores(cores, cpu_count)]
  ELSE [phase |-> "constructed", exc |-> "none", msg |-> <<>>,
        cores |-> SetCores(cores, cpu_count),
        log |-> IF num_datasets_selected % SetCores(cores, cpu_count) # 0
                THEN <<CoresWarning>> ELSE <<>>,
        schedule_assays |-> SortedSet(assays),
        rp_map |-> [kind |-> "str", name |-> "basic"],
        generate_rp_matrix |-> FALSE,
        has_mask |-> FALSE,
        mask_gen |-> 0,
        factor_gene_mask |-> <<>>,
        factor_mask_keys |-> <<>>,
        assays |-> <<>>]

\* The data LISA_Core loads into the object: the gene location of each RP-map
\* row and the factor name of each metadata row
LoadedData(o, data) ==
  IF o.phase = "constructed"
  THEN o @@ [rp_map_locs |-> data.rp_map_locs, factor |-> data.factor]
  ELSE o

\* sparse.load_npz(rp_map_path).tocsr()
LoadNpz(o, name, files, fetched, warned) ==
  IF name \in files
  THEN [lisa |-> [o EXCEPT !.rp_map = [kind |-> "matrix", name |-> name]],
        files |-> files, exc |-> "none", fetched |-> fetched, warned |-> warned]
  ELSE [lisa |-> o, files |-> files, exc |-> "FileNotFoundError",
        fetched |-> fetched, warned |-> warned]

\* _load_rp_map without the os.path.exists test
LoadRpMapAlwaysFetch(o, files, fetch) ==
  IF o.rp_map.kind # "str"
  THEN [lisa |-> o, files |-> files, exc |-> "none", fetched |-> 0, warned |-> 0]
  ELSE IF fetch = "ok"
  THEN LoadNpz(o, o.rp_map.name, files \cup {o.rp_map.name}, 1, 0)
  ELSE [lisa |-> o, files |-> files, exc |-> "NameError", fetched |-> 1, warned |-> 0]

\* _load_rp_map with a failed fetch passed over
LoadRpMapIgnoreFailure(o, files, fetch) ==
  IF o.rp_map.kind # "str"
  THEN [lisa |-> o, files |-> files, exc |-> "none", fetched |-> 0, warned |-> 0]
  ELSE IF o.rp_map.name \in files THEN LoadNpz(o, o.rp_map.name, files, 0, 0)
  ELSE IF fetch = "ok"
  THEN LoadNpz(o, o.rp_map.name, files \cup {o.rp_map.name}, 1, 0)
  ELSE [lisa |-> o, files |-> files, exc |-> "none", fetched |-> 1, warned |-> 0]

\* _load_rp_map: files are the RP-map names whose local path exists, fetch is
\* what fetch_from_cistrome does if it is called ("ok": the file is written;
\* "URLError": it raises).  The except clause evaluates error.URLError, and
\* raises NameError when the module binds no name "error".
LoadRpMap(o, files, fetch) ==
  IF o.rp_map.kind # "str"
  THEN [lisa |-> o, files |-> files, exc |-> "none", fetched |-> 0, warned |-> 0]
  ELSE IF o.rp_map.name \in files THEN LoadNpz(o, o.rp_map.name, files, 0, 0)
  ELSE IF fetch = "ok"
  THEN LoadNpz(o, o.rp_map.name, files \cup {o.rp_map.name}, 1, 0)
  ELSE IF "error" \notin ModuleNames
  THEN [lisa |-> o, files |-> files, exc |-> "NameError", fetched |-> 1, warned |-> 0]
  ELSE LoadNpz([o EXCEPT !.log = Append(o.log, FallbackWarning)],
               "basic", files, 1, 1)

\* The assay object _initialize_assays builds for one scheduled name
NewAssay(o, assay) ==
  IF assay = "Direct"
  THEN [cls |-> "PeakRP_Assay", technology |-> "chipseq"]
  ELSE [cls |-> "Accesibility_Assay", technology |-> assay, cores |-> o.cores,
        factor_gene_mask |-> o.factor_gene_mask, mask_gen |-> o.mask_gen]

\* self.factor_gene_mask, self.factor_mask_keys = ... : mask_gen tells the mask
\* objects the run has made apart
WithMask(o) ==
  LET m == GetFactorGeneMask(o.rp_map_locs, o.factor)
  IN  [o EXCEPT !.has_mask = TRUE, !.mask_gen = o.mask_gen + 1,
                !.factor_gene_mask = m.factor_gene_mask,
                !.factor_mask_keys = m.factor_mask_keys]

\* _initialize_assays that computes the mask at every call
InitializeAssaysRecompute(o) ==
  LET sched == o.schedule_assays
      bad == {i \in DOMAIN sched : sched[i] \notin {"Direct", "DNase", "H3K27ac"}}
      stop == IF bad = {} THEN Len(sched) + 1 ELSE SetMin(bad)
      o1 == WithMask(o)
      added == [i \in 1..(stop - 1) |-> NewAssay(o1, sched[i])]
  IN  [lisa |-> [o1 EXCEPT !.assays = o.assays \o added],
       masks |-> 1,
       exc |-> IF bad = {} THEN "none" ELSE "AssertionError",
       msg |-> IF bad = {} THEN <<>>
               ELSE PyFormat(InvalidAssayTemplate, <<sched[stop]>>)]

\* _initialize_assays: the mask is computed when the object has none, then the
\* scheduled names are taken in order; an unknown name raises after the assays
\* before it were added
InitializeAssays(o) ==
  LET sched == o.schedule_assays
      bad == {i \in DOMAIN sched : sched[i] \notin {"Direct", "DNase", "H3K27ac"}}
      stop == IF bad = {} THEN Len(sched) + 1 ELSE SetMin(bad)
      o1 == IF o.has_mask THEN o ELSE WithMask(o)
      added == [i \in 1..(stop - 1) |-> NewAssay(o1, sched[i])]
  IN  [lisa |-> [o1 EXCEPT !.assays = o.assays \o added],
       masks |-> IF o.has_mask THEN 0 ELSE 1,
       exc |-> IF bad = {} THEN "none" ELSE "AssertionError",
       msg |-> IF bad = {} THEN <<>>
               ELSE PyFormat(InvalidAssayTemplate, <<sched[stop]>>)]

NoLisa == [phase |-> "new"]

\* The gene data of a run: RP-map rows in an order of their own, one factor
\* named by a synonym and one that no gene matches
RunGeneData == [rp_map_locs |-> <<2, 1>>, factor |-> <<Synonym(1), NoGeneName>>]

RunIdle ==
  /\ lisa = NoLisa
  /\ host = [cpu_count |-> 1, files |-> {}, fetches |-> 0, data |-> RunGeneData]
  /\ ncalls = 0

RunInit ==
  /\ lisa = NoLisa
  /\ \E cpu_count \in 1..MaxCpu, files \in SUBSET {"basic"} :
       host = [cpu_count |-> cpu_count, files |-> files, fetches |-> 0,
               data |-> RunGeneData]
  /\ ncalls = 0
  /\ call = [op |-> "none"]
  /\ ret = [kind |-> "none"]
  /\ results_headers = <<>>
  /\ results_rows = <<>>

\* lisa.FromGenes(species, cores, assays)
new_LISA ==
  /\ lisa.phase = "new"
  /\ \E assays \in SeqsUpTo(AssayKinds, MaxAssays), cores \in -1..MaxCores :
       LET o == LoadedData(InitLISA(assays, cores, host.cpu_count), host.data)
       IN  /\ lisa' = o
           /\ call' = [op |-> "__init__", assays |-> assays, cores |-> cores,
                       exc |-> o.exc, msg |-> o.msg]
  /\ UNCHANGED <<host, ncalls, ret, tableVars>>

_load_rp_map ==
  /\ lisa.phase = "constructed"
  /\ ncalls < MaxCalls
  /\ \E fetch \in {"ok", "URLError"} :
       LET r == LoadRpMap(lisa, host.files, fetch)
       IN  /\ lisa' = r.lisa
           /\ host' = [host EXCEPT !.files = r.files,
                                   !.fetches = host.fetches + r.fetched]
           /\ call' = [op |-> "_load_rp_map", exc |-> r.exc,
                       fetch |-> IF r.fetched = 0 THEN "none" ELSE fetch,
                       warned |-> r.warned, nth |-> ncalls + 1]
  /\ ncalls' = ncalls + 1
  /\ UNCHANGED <<ret, tableVars>>

_initialize_assays ==
  /\ lisa.phase = "constructed"
  /\ ncalls < MaxCalls
  /\ LET r == InitializeAssays(lisa)
     IN  /\ lisa' = r.lisa
         /\ call' = [op |-> "_initialize_assays", exc |-> r.exc, msg |-> r.msg,
                     masks |-> r.masks]
  /\ ncalls' = ncalls + 1
  /\ UNCHANGED <<host, ret, tableVars>>

RunNext ==
  \/ new_LISA
  \/ _load_rp_map
  \/ _initialize_assays

RunSpec == RunInit /\ [][RunNext]_vars

\* ------------------------------------------------- sparse matrix
RECURSIVE SumAt(_, _, _)
\* The sum of the values a column gives for row r
SumAt(index_column, val_column, r) ==
  IF Len(index_column) = 0 THEN 0
  ELSE (IF Head(index_column) = r THEN Head(val_column) ELSE 0)
       + SumAt(Tail(index_column), Tail(val_column), r)

\* sparse.csc_matrix((val_column, (index_column, zeros)), shape = (col_length, 1)):
\* the stored entries of the column; scipy adds up the values given for one
\* position when it builds the compressed form
CscMatrix(index_column, val_column, col_length) ==
  IF Len(index_column) # Len(val_column)
  THEN [exc |-> "ValueError", entries |-> {}]
  ELSE IF \E k \in DOMAIN index_column : index_column[k] \notin 0..(col_length - 1)
  THEN [exc |-> "ValueError", entries |-> {}]
  ELSE [exc |-> "none",
        entries |-> {[row |-> r, val |-> SumAt(index_column, val_column, r)] :
                       r \in Range(index_column)}]

\* ragged_array_to_sparse_matrix: one block per zipped column; sparse.hstack
\* of no block raises ValueError
RaggedArrayToSparseMatrix(indices, values, col_length) ==
  LET n == Min2(Len(indices), Len(values))
      blocks == [j \in 1..n |-> CscMatrix(indices[j], values[j], col_length)]
  IN  IF \E j \in 1..n : blocks[j].exc # "none"
      THEN [exc |-> "ValueError", shape |-> <<>>, columns |-> <<>>]
      ELSE IF n = 0
      THEN [exc |-> "ValueError", shape |-> <<>>, columns |-> <<>>]
      ELSE [exc |-> "none", shape |-> <<col_length, n>>,
            columns |-> [j \in 1..n |-> blocks[j].entries]]

\* Ragged inputs with valid indices: each column a list of (index, value)
\* pairs, given as the index lists and the value lists
RaggedColumns(col_length) ==
  SeqsUpTo(SeqsUpTo((0..(col_length - 1)) \X Vals, MaxEntries), MaxColumns)

SparseInit ==
  /\ \E col_length \in 1..MaxColLength :
       \E cols \in RaggedColumns(col_length) :
         call = [op |-> "none",
                 indices |-> [j \in DOMAIN cols |-> [k \in DOMAIN cols[j] |-> cols[j][k][1]]],
                 values |-> [j \in DOMAIN cols |-> [k \in DOMAIN cols[j] |-> cols[j][k][2]]],
                 col_length |-> col_length]
  /\ ret = [kind |-> "none"]
  /\ results_headers = <<>>
  /\ results_rows = <<>>
  /\ RunIdle

ragged_array_to_sparse_matrix ==
  /\ call.op = "none"
  /\ LET r == RaggedArrayToSparseMatrix(call.indices, call.values, call.col_length)
     IN  /\ call' = [call EXCEPT !.op = "ragged_array_to_sparse_matrix"] @@ [exc |-> r.exc]
         /\ ret' = [kind |-> "matrix", shape |-> r.shape, columns |-> r.columns]
  /\ UNCHANGED <<tableVars, runVars>>

SparseNext == ragged_array_to_sparse_matrix

SparseSpec == SparseInit /\ [][SparseNext]_vars

\* ------------------------------------------------- mask and z-score columns
\* An entry of a merged column: a z-score, or the string 'NA'
ZScore(v) == [na |-> FALSE, z |-> v]
NA == [na |-> TRUE, z |-> 0]

\* z_dict.get(factor, 'NA')
ZDictGet(z_dict, factor) ==
  IF factor \in DOMAIN z_dict THEN ZScore(z_dict[factor]) ELSE NA

\* _format_results, the loop over assay_info: assay_info is the sequence of
\* the dict's items, an item's info either carries 'factor_acc_z_scores' or
\* does not; new_columns is the sequence of the columns added
FormatResults(o, assay_info) ==
  IF (\E i \in DOMAIN assay_info : assay_info[i].has_z) /\ ~o.has_mask
  THEN [exc |-> "AttributeError", new_columns |-> <<>>]
  ELSE LET with_z == SelectSeq(assay_info, LAMBDA item : item.has_z)
       IN  [exc |-> "none",
            new_columns |->
              [i \in DOMAIN with_z |->
                 [key |-> <<with_z[i].assay, "factor_accessibility_z_score">>,
                  column |->
                    LET z_dict == PyDict(o.factor_mask_keys, with_z[i].z)
                    IN  [f \in DOMAIN o.factor |-> ZDictGet(z_dict, o.factor[f])]]]]

\* The gene data a run can have loaded: RP-map rows without a repeated
\* location, and any factor names
GeneDatas ==
  {[rp_map_locs |-> l, factor |-> f] :
     l \in InjSeqs(1..MaxGenes), f \in SeqsUpTo(FactorNames, MaxFactors)}

\* The auxiliary info of a run: none, or that of a scheduled assay, which is
\* without z-scores or has one z-score per masked row
AssayInfos(o) ==
  {<<>>} \cup
  {<<[assay |-> a, has_z |-> FALSE, z |-> <<>>]>> : a \in Range(o.schedule_assays)} \cup
  {<<[assay |-> a, has_z |-> TRUE, z |-> z]>> :
     a \in Range(o.schedule_assays) \ {"Direct"},
     z \in [1..Len(o.factor_mask_keys) -> Vals]}

MaskInit ==
  /\ \E d \in GeneDatas :
       /\ host = [cpu_count |-> 2, files |-> {}, fetches |-> 0, data |-> d]
       /\ lisa = LoadedData(InitLISA(<<"DNase">>, -1, 2), d)
  /\ ncalls = 0
  /\ call = [op |-> "none"]
  /\ ret = [kind |-> "none"]
  /\ results_headers = <<>>
  /\ results_rows = <<>>

_get_factor_gene_mask ==
  /\ lisa.phase = "constructed"
  /\ ncalls < MaxCalls
  /\ lisa' = WithMask(lisa)
  /\ call' = [op |-> "_get_factor_gene_mask", exc |-> "none"]
  /\ ret' = [kind |-> "mask", factor_gene_mask |-> lisa'.factor_gene_mask,
             factor_mask_keys |-> lisa'.factor_mask_keys]
  /\ ncalls' = ncalls + 1
  /\ UNCHANGED <<host, tableVars>>

_format_results ==
  /\ lisa.phase = "constructed"
  /\ ncalls < MaxCalls
  /\ \E assay_info \in AssayInfos(lisa) :
       LET r == FormatResults(lisa, assay_info)
       IN  /\ call' = [op |-> "_format_results", exc |-> r.exc,
                       assay_info |-> assay_info]
           /\ ret' = [kind |-> "columns", new_columns |-> r.new_columns]
  /\ ncalls' = ncalls + 1
  /\ UNCHANGED <<lisa, host, tableVars>>

MaskNext ==
  \/ _get_factor_gene_mask
  \/ _format_results

MaskSpec == MaskInit /\ [][MaskNext]_vars

\* ------------------------------------------------------- table state
Table == [headers |-> results_headers, rows |-> results_rows]

NoCall == [op |-> "none"]
NoRet == [kind |-> "none"]

\* A table built by LISA_Results(keys, columns) from unique keys and one
\* column per key, the columns of one length
TableInit ==
  /\ \E keys \in InjSeqs(Names), n \in 0..MaxRows :
       \E columns \in [1..Len(keys) -> [1..n -> Vals]] :
         /\ results_headers = NewResults(keys, columns).headers
         /\ results_rows = NewResults(keys, columns).rows
  /\ call = NoCall
  /\ ret = NoRet
  /\ RunIdle

Datas == SeqsUpTo(Vals, MaxRows + 1)
ColumnNums == -1..Cardinality(Names)
Keys == [kind : {"str"}, name : Names] \cup
        [kind : {"int"}, idx : 0..Cardinality(Names)]

Idle == call.op = "none"

add_column ==
  /\ Idle
  /\ \E name \in Names, data \in Datas, column_num \in ColumnNums :
       LET r == AddColumn(Table, name, data, column_num)
       IN  /\ results_headers' = r.t.headers
           /\ results_rows' = r.t.rows
           /\ call' = [op |-> "add_column", name |-> name,
                       column_num |-> column_num, exc |-> r.exc]
           /\ ret' = NoRet

\* The call before this one was an add_column of this name that returned
AfterAdd(name) ==
  call.op = "add_column" /\ call.exc = "none" /\ call.name = name

\* update_column, called after the caller dropped its last result or straight
\* after it added the column
update_column ==
  /\ Idle \/ call.op = "add_column"
  /\ \E name \in Names :
       /\ Idle \/ AfterAdd(name)
       /\ \E data \in Datas :
            LET r == UpdateColumn(Table, name, data)
            IN  /\ results_headers' = r.t.headers
                /\ results_rows' = r.t.rows
                /\ call' = [op |-> "update_column", name |-> name, exc |-> r.exc,
                            after_add |-> AfterAdd(name)]
                /\ ret' = NoRet

sortby ==
  /\ Idle
  /\ \E key \in Keys, add_rank \in BOOLEAN :
       LET r == SortBy(Table, key, add_rank)
       IN  /\ results_headers' = r.t.headers
           /\ results_rows' = r.t.rows
           /\ call' = [op |-> "sortby", key |-> key, add_rank |-> add_rank,
                       exc |-> r.exc]
           /\ ret' = NoRet

subset ==
  /\ Idle
  /\ \E rows \in SeqsUpTo(0..MaxRows, MaxSel) :
       LET r == Subset(Table, rows)
       IN  /\ call' = [op |-> "subset", rows |-> rows, exc |-> r.exc]
           /\ ret' = r.ret
           /\ UNCHANGED tableVars

to_tsv ==
  /\ Idle
  /\ \E top_n \in 0..(MaxRows + 1) :
       LET r == ToTsv(Table, top_n)
       IN  /\ call' = [op |-> "to_tsv", top_n |-> top_n, exc |-> r.exc]
           /\ ret' = r.ret
           /\ UNCHANGED tableVars

filter_rows ==
  /\ Idle
  /\ \E filter_func \in SUBSET Vals, colname \in Names :
       LET r == FilterRows(Table, filter_func, colname)
       IN  /\ call' = [op |-> "filter_rows", filter_func |-> filter_func,
                       colname |-> colname, exc |-> r.exc]
           /\ ret' = r.ret
           /\ UNCHANGED tableVars

\* The caller is done with what the last call returned or raised and goes on
\* to its next call.
NextCall ==
  /\ ~Idle
  /\ call' = NoCall
  /\ ret' = NoRet
  /\ UNCHANGED tableVars

TableNext ==
  \/ add_column /\ UNCHANGED runVars
  \/ update_column /\ UNCHANGED runVars
  \/ sortby /\ UNCHANGED runVars
  \/ subset /\ UNCHANGED runVars
  \/ to_tsv /\ UNCHANGED runVars
  \/ filter_rows /\ UNCHANGED runVars
  \/ NextCall /\ UNCHANGED runVars

TableSpec == TableInit /\ [][TableNext]_vars

\* ------------------------------------------------- a table and its subset
\* subset hands self.results_headers itself to the table it returns, so the
\* two tables hold one list of headers; the rows are new lists.  A caller
\* that keeps the returned table has it in ret; the list both tables hold is
\* results_headers, and ret.t.headers is the same list.
Kept == ret.kind = "table"

TableOf(target) == IF target = "source" THEN Table ELSE ret.t

\* The state after a call on one of the two tables left it as table t: the
\* call changes the headers in place, and the rows of its own table only
Aliased(target, t) ==
  /\ results_headers' = t.headers
  /\ IF target = "source"
     THEN /\ results_rows' = t.rows
          /\ ret' = [ret EXCEPT !.t.headers = t.headers]
     ELSE /\ results_rows' = results_rows
          /\ ret' = [ret EXCEPT !.t = t]

kept_subset ==
  /\ ~Kept
  /\ ncalls < MaxCalls
  /\ \E rows \in SeqsUpTo(0..MaxRows, MaxSel) :
       LET r == Subset(Table, rows)
       IN  /\ call' = [op |-> "subset", rows |-> rows, exc |-> r.exc]
           /\ ret' = r.ret
  /\ ncalls' = ncalls + 1
  /\ UNCHANGED <<tableVars, lisa, host>>

kept_filter_rows ==
  /\ ~Kept
  /\ ncalls < MaxCalls
  /\ \E filter_func \in SUBSET Vals, colname \in Names :
       LET r == FilterRows(Table, filter_func, colname)
       IN  /\ call' = [op |-> "filter_rows", filter_func |-> filter_func,
                       colname |-> colname, exc |-> r.exc]
           /\ ret' = r.ret
  /\ ncalls' = ncalls + 1
  /\ UNCHANGED <<tableVars, lisa, host>>

aliased_add_column ==
  /\ Kept
  /\ ncalls < MaxCalls
  /\ \E target \in {"source", "returned"} :
       \E name \in Names, data \in Datas, column_num \in ColumnNums :
         LET r == AddColumn(TableOf(target), name, data, column_num)
         IN  /\ Aliased(target, r.t)
             /\ call' = [op |-> "add_column", target |-> target, name |-> name,
                         column_num |-> column_num, exc |-> r.exc]
  /\ ncalls' = ncalls + 1
  /\ UNCHANGED <<lisa, host>>

aliased_update_column ==
  /\ Kept
  /\ ncalls < MaxCalls
  /\ \E target \in {"source", "returned"} :
       \E name \in Names, data \in Datas :
         LET r == UpdateColumn(TableOf(target), name, data)
         IN  /\ Aliased(target, r.t)
             /\ call' = [op |-> "update_column", target |-> target, name |-> name,
                         exc |-> r.exc]
  /\ ncalls' = ncalls + 1
  /\ UNCHANGED <<lisa, host>>

aliased_sortby ==
  /\ Kept
  /\ ncalls < MaxCalls
  /\ \E target \in {"source", "returned"} :
       \E key \in Keys, add_rank \in BOOLEAN :
         LET r == SortBy(TableOf(target), key, add_rank)
         IN  /\ Aliased(target, r.t)
             /\ call' = [op |-> "sortby", target |-> target, key |-> key,
                         add_rank |-> add_rank, exc |-> r.exc]
  /\ ncalls' = ncalls + 1
  /\ UNCHANGED <<lisa, host>>

AliasNext ==
  \/ kept_subset
  \/ kept_filter_rows
  \/ aliased_add_column
  \/ aliased_update_column
  \/ aliased_sortby

AliasSpec == TableInit /\ [][AliasNext]_vars

\* ------------------------------------------------- results-table claims
Perms(n) == {p \in [1..n -> 1..n] : \A i, j \in 1..n : p[i] = p[j] => i = j}

RemoveAt(row, k) == SubSeq(row, 1, k) \o SubSeq(row, k + 2, Len(row))

WithoutRank(headers, row) ==
  IF "Rank" \in Range(headers) THEN RemoveAt(row, GetColnum(headers, "Rank"))
  ELSE row

RECURSIVE SplitOn(_, _)
SplitOn(text, sep) ==
  IF \A i \in DOMAIN text : text[i] # sep THEN <<text>>
  ELSE LET i == SetMin({j \in DOMAIN text : text[j] = sep})
       IN  <<SubSeq(text, 1, i - 1)>> \o SplitOn(SubSeq(text, i + 1, Len(text)), sep)

\* C1: every row has exactly as many values as there are headers and the
\* headers are pairwise distinct, after any sequence of add_column,
\* update_column and sortby calls with value sequences of any length.
C1_RowsMatchHeaders ==
  /\ \A i \in DOMAIN results_rows : Len(results_rows[i]) = Len(results_headers)
  /\ \A i, j \in DOMAIN results_headers :
       results_headers[i] = results_headers[j] => i = j

\* C2: to_tsv(topN) on a table of M rows does not fail and returns exactly
\* min(topN, M) + 1 lines, the header line followed by the first min(topN, M)
\* rows in the table's current order.
C2_ToTsvLines ==
  call.op = "to_tsv" =>
    /\ call.exc = "none"
    /\ ret.kind = "text"
    /\ LET m == Min2(call.top_n, Len(results_rows))
           lines == SplitOn(ret.text, "\n")
       IN  /\ Len(lines) = m + 1
           /\ lines[1] = PyJoin("\t", [j \in DOMAIN results_headers |->
                                        <<results_headers[j]>>])
           /\ \A i \in 1..m :
                lines[i + 1] = PyJoin("\t", [j \in DOMAIN results_rows[i] |->
                                              <<ToString(results_rows[i][j])>>])

\* The 0-based key column a sortby call sorted by, in the table it was called on
SortKeyOf(headers, key) ==
  IF key.kind = "str" THEN GetColnum(headers, key.name) ELSE key.idx

\* The 0-based position of that column after the call
SortKeyAfter(headers, headersAfter, key) ==
  IF key.kind = "str" THEN GetColnum(headersAfter, key.name)
  ELSE key.idx + (Len(headersAfter) - Len(headers))

\* C3: a sortby(key) call that returns leaves the table holding a permutation
\* of its previous rows (the Rank column apart, when add_rank rewrites it) in
\* non-decreasing order of the key column, and rows of equal key keep the
\* relative order they had before the call.
C3_SortStable ==
  [][(call'.op = "sortby" /\ call'.exc = "none") =>
      LET old == results_rows
          new == results_rows'
          k == SortKeyOf(results_headers, call'.key)
          kAfter == SortKeyAfter(results_headers, results_headers', call'.key)
          same(a, b) == IF call'.add_rank
                        THEN WithoutRank(results_headers', a) =
                             WithoutRank(results_headers, b)
                        ELSE a = b
      IN  /\ Len(new) = Len(old)
          /\ ~call'.add_rank => results_headers' = results_headers
          /\ \A i, j \in DOMAIN new :
               i < j => At(new[i], kAfter) <= At(new[j], kAfter)
          /\ \E p \in Perms(Len(old)) :
               /\ \A i \in DOMAIN new : same(new[i], old[p[i]])
               /\ \A i, j \in DOMAIN new :
                    i < j => /\ At(old[p[i]], k) <= At(old[p[j]], k)
                             /\ At(old[p[i]], k) = At(old[p[j]], k) => p[i] < p[j]
    ]_vars

\* C3 witness: a sortby call returned on a table where two different rows
\* share a key value and a third row has another.
C3_Witness ==
  /\ call.op = "sortby" /\ call.exc = "none" /\ ~call.add_rank
  /\ LET k == SortKeyOf(results_headers, call.key)
     IN  \E i, j \in DOMAIN results_rows :
           /\ i < j
           /\ At(results_rows[i], k) = At(results_rows[j], k)
           /\ results_rows[i] # results_rows[j]

\* C4 as claimed: after sortby(key, add_rank=True) the table has exactly one
\* "Rank" column, it is at position 0, and the row at position i holds i+1.
C4_RankAtFront ==
  (call.op = "sortby" /\ call.add_rank /\ call.exc = "none") =>
    /\ Cardinality({i \in DOMAIN results_headers : results_headers[i] = "Rank"}) = 1
    /\ results_headers[1] = "Rank"
    /\ \A i \in DOMAIN results_rows : At(results_rows[i], 0) = i

\* C4 amended: after a sortby(key, add_rank=True) call that returns, the table
\* has exactly one "Rank" column; it is at position 0 when the table had no
\* "Rank" column before the call and at the position it already had
\* otherwise; the row at position i (0-based) holds rank i+1 in it.
C4_RankColumn ==
  [][(call'.op = "sortby" /\ call'.add_rank /\ call'.exc = "none") =>
      LET c == GetColnum(results_headers', "Rank")
      IN  /\ Cardinality({i \in DOMAIN results_headers' :
                            results_headers'[i] = "Rank"}) = 1
          /\ c = (IF "Rank" \in Range(results_headers)
                  THEN GetColnum(results_headers, "Rank") ELSE 0)
          /\ Len(results_rows') = Len(results_rows)
          /\ \A i \in DOMAIN results_rows' :
               /\ Len(results_rows'[i]) > c
               /\ At(results_rows'[i], c) = i
    ]_vars

\* C4 witness: sortby(add_rank=True) returned on a table of two or more rows
\* whose "Rank" column existed before and is not the first column.
C4_Witness ==
  /\ call.op = "sortby" /\ call.add_rank /\ call.exc = "none"
  /\ GetColnum(results_headers, "Rank") = 1
  /\ Len(results_rows) >= 2

\* C5: add_column with a name already among the headers raises, update_column
\* with a name not among the headers raises, and in both cases the headers and
\* every row are as they were before the call.
C5_MisuseRejected ==
  [][/\ (call'.op = "add_column" /\ call'.name \in Range(results_headers)) =>
          (call'.exc = "AssertionError" /\ UNCHANGED tableVars)
     /\ (call'.op = "update_column" /\ call'.name \notin Range(results_headers)) =>
          (call'.exc = "IndexError" /\ UNCHANGED tableVars)
    ]_vars

\* C5 witness: add_column was refused on a table that has rows.
C5_Witness ==
  /\ call.op = "add_column" /\ call.exc = "AssertionError"
  /\ call.name \in Range(results_headers)
  /\ Len(results_rows) >= 1

\* C6: subset(rowIndices) returns the same headers and exactly the source
\* rows at the given indices in the order given (no rows for an empty list);
\* filter_rows(predicate, column) returns the same headers and exactly the
\* source rows whose value in that column satisfies the predicate, in order.
C6_SubsetFilterExact ==
  /\ (call.op = "subset" /\ call.exc = "none") =>
       /\ ret.t.headers = results_headers
       /\ ret.t.rows = [i \in DOMAIN call.rows |-> At(results_rows, call.rows[i])]
  /\ (call.op = "filter_rows" /\ call.exc = "none") =>
       LET colnum == GetColnum(results_headers, call.colname)
           sat(row) == At(row, colnum) \in call.filter_func
       IN  /\ ret.t.headers = results_headers
           /\ ret.t.rows = SelectSeq(results_rows, sat)

\* --------------------------------------------------------- run claims
\* C7: when the RP-map file already exists locally _load_rp_map resolves it
\* without invoking fetch_from_cistrome, and once the map is loaded every
\* later _load_rp_map call returns it without invoking the transport.
C7_NoRefetch ==
  [][call'.op = "_load_rp_map" =>
      /\ (lisa.rp_map.kind = "str" /\ lisa.rp_map.name \in host.files) =>
           /\ host'.fetches = host.fetches
           /\ call'.exc = "none"
           /\ lisa'.rp_map = [kind |-> "matrix", name |-> lisa.rp_map.name]
      /\ lisa.rp_map.kind = "matrix" =>
           /\ host'.fetches = host.fetches
           /\ call'.exc = "none"
           /\ lisa'.rp_map = lisa.rp_map
    ]_vars

\* C7 witness: the second _load_rp_map call of a run returned the loaded map
\* and the transport was never invoked.
C7_Witness ==
  /\ call.op = "_load_rp_map" /\ call.nth = 2 /\ call.exc = "none"
  /\ lisa.assays = <<>>
  /\ lisa.rp_map.kind = "matrix"
  /\ host.fetches = 0

\* C8: when the requested file is absent locally and the fetch fails, the
\* resolver appends exactly one warning, substitutes "basic" and retries once;
\* the caller gets the basic map if that retry finds it and an error otherwise.
C8_FallbackToBasic ==
  (call.op = "_load_rp_map" /\ call.fetch = "URLError") =>
    /\ call.warned = 1
    /\ IF "basic" \in host.files
       THEN call.exc = "none" /\ lisa.rp_map = [kind |-> "matrix", name |-> "basic"]
       ELSE call.exc # "none"

\* C9: a _load_rp_map call that returns normally leaves the caller with a
\* loaded map read from a path that exists locally; every other call raised.
C9_LoadedOrRaised ==
  (call.op = "_load_rp_map" /\ call.exc = "none") =>
    /\ lisa.rp_map.kind = "matrix"
    /\ lisa.rp_map.name \in host.files

\* C9 witness: _load_rp_map returned normally after a fetch that succeeded.
C9_Witness ==
  /\ call.op = "_load_rp_map" /\ call.exc = "none"
  /\ call.fetch = "ok"

\* C10: a run that requests an assay kind other than Direct, DNase and
\* H3K27ac fails with an error that names the offending value, before any
\* assay is constructed, registered or run.
C10_InvalidAssayNamed ==
  (call.op = "__init__" /\
   \E i \in DOMAIN call.assays : call.assays[i] \notin {"Direct", "DNase", "H3K27ac"}) =>
    /\ call.exc = "AssertionError"
    /\ lisa.phase = "failed"
    /\ \E i \in DOMAIN call.assays :
         /\ call.assays[i] \notin {"Direct", "DNase", "H3K27ac"}
         /\ call.assays[i] \in Range(call.msg)

\* ------------------------------------------------- C11
KindRank(a) == CHOOSE i \in DOMAIN KindOrder : KindOrder[i] = a

Ascending(sched) ==
  \A i, j \in DOMAIN sched : i < j => KindRank(sched[i]) < KindRank(sched[j])

KindOf(assay) == IF assay.cls = "PeakRP_Assay" THEN "Direct" ELSE assay.technology

\* C11: the schedule holds each requested assay kind exactly once, in
\* ascending order, so it depends on the set of requested kinds only; a call
\* of _initialize_assays constructs and registers the assays in that order.
C11_ScheduleSortedOnce ==
  /\ (call.op = "__init__" /\ call.exc = "none") =>
       Range(lisa.schedule_assays) = Range(call.assays)
  /\ lisa.phase = "constructed" => Ascending(lisa.schedule_assays)
  /\ (call.op = "_initialize_assays" /\ call.exc = "none") =>
       LET n == Len(lisa.schedule_assays)
           m == Len(lisa.assays)
       IN  /\ m >= n
           /\ \A i \in 1..n : KindOf(lisa.assays[m - n + i]) = lisa.schedule_assays[i]

\* C11 witness: _initialize_assays registered the assays of two scheduled kinds.
C11_Witness ==
  /\ call.op = "_initialize_assays" /\ call.exc = "none"
  /\ Len(lisa.schedule_assays) = 2
  /\ Len(lisa.assays) = 2
  /\ KindOf(lisa.assays[1]) # KindOf(lisa.assays[2])

\* ------------------------------------------------- C12, C13, C20
ValidRequest ==
  /\ call.op = "__init__"
  /\ Len(call.assays) > 0
  /\ \A i \in DOMAIN call.assays : call.assays[i] \in ConfigAssays

LeastOf(S) == CHOOSE x \in S : \A y \in S : x <= y

\* C12: the worker count the object keeps exceeds neither the number of
\* datasets selected nor the host's cores less one; for a request r >= 1 it is
\* the least of r, cores less one and datasets, and for -1 the least of the
\* last two.
C12_EffectiveCores ==
  /\ lisa.phase = "constructed" =>
       /\ lisa.cores <= num_datasets_selected
       /\ lisa.cores <= host.cpu_count - 1
  /\ (ValidRequest /\ call.exc \in {"none", "ZeroDivisionError"}) =>
       /\ call.cores >= 1 =>
            lisa.cores = LeastOf({call.cores, host.cpu_count - 1, num_datasets_selected})
       /\ call.cores = -1 =>
            lisa.cores = LeastOf({host.cpu_count - 1, num_datasets_selected})

\* C12 witness: a request of 7 workers for 10 datasets on 4 cores gave 3.
C12_Witness ==
  /\ call.op = "__init__" /\ call.exc = "none"
  /\ call.cores = 7 /\ host.cpu_count = 4
  /\ lisa.cores = 3

\* C13: a construction whose requested worker count does not divide the
\* number of datasets selected evenly does not fail: it logs the advisory and
\* keeps the clipped count.
C13_UnevenRequestAdvised ==
  (ValidRequest /\ call.cores >= 1 /\ num_datasets_selected % call.cores # 0) =>
    /\ call.exc = "none"
    /\ CoresWarning \in Range(lisa.log)
    /\ lisa.cores = LeastOf({call.cores, host.cpu_count - 1, num_datasets_selected})

\* C20: every construction with valid assays and a worker-count request of at
\* least -1 succeeds with a worker count of at least 1.
C20_CoresAtLeastOne ==
  ValidRequest => (call.exc = "none" /\ lisa.cores >= 1)

MatchedLocations(factor) ==
  {all_genes[g].location : g \in {h \in DOMAIN all_genes :
                                    \E n \in DOMAIN factor : factor[n].gene = h}}

\* The rows a mask marks, in row order
TrueRows(mask) == SelectSeq([i \in DOMAIN mask |-> i], LAMBDA i : mask[i])

CanonicalSymbol(loc) ==
  (CHOOSE g \in Range(all_genes) : g.location = loc).symbol

\* C14: after _get_factor_gene_mask the mask has one entry per RP-map row,
\* true exactly at the rows whose location a matched factor gene has; the
\* keys hold, in row order, the canonical symbol of each marked row; a factor
\* name that matches no gene marks nothing and raises nothing.
C14_MaskAligned ==
  call.op = "_get_factor_gene_mask" =>
    LET locs == lisa.rp_map_locs
        mask == lisa.factor_gene_mask
        keys == lisa.factor_mask_keys
    IN  /\ call.exc = "none"
        /\ DOMAIN mask = DOMAIN locs
        /\ \A i \in DOMAIN locs : mask[i] <=> (locs[i] \in MatchedLocations(lisa.factor))
        /\ Len(keys) = Len(TrueRows(mask))
        /\ \A p \in DOMAIN keys : keys[p] = CanonicalSymbol(locs[TrueRows(mask)[p]])

\* C14 witness: the mask of a map with a marked and an unmarked row, made from
\* a synonym and a name that no gene has.
C14_Witness ==
  /\ call.op = "_get_factor_gene_mask"
  /\ NoGeneName \in Range(lisa.factor)
  /\ \E g \in DOMAIN all_genes : Synonym(g) \in Range(lisa.factor)
  /\ TRUE \in Range(lisa.factor_gene_mask)
  /\ FALSE \in Range(lisa.factor_gene_mask)
  /\ Len(lisa.factor_mask_keys) = 1

\* C16: the merged z-score column of an assay has one entry per factor of the
\* metadata, in metadata order: the z-score of the factor's marked row when
\* the alignment matched the factor, and 'NA' otherwise.
C16_ZScoreColumn ==
  (call.op = "_format_results" /\ call.exc = "none") =>
    \A k \in DOMAIN call.assay_info :
      call.assay_info[k].has_z =>
        \E c \in DOMAIN ret.new_columns :
          /\ ret.new_columns[c].key[1] = call.assay_info[k].assay
          /\ LET column == ret.new_columns[c].column
                 rows == TrueRows(lisa.factor_gene_mask)
                 z == call.assay_info[k].z
             IN  /\ DOMAIN column = DOMAIN lisa.factor
                 /\ \A f \in DOMAIN lisa.factor :
                      LET at == {p \in DOMAIN rows :
                                   /\ lisa.factor[f].gene \in DOMAIN all_genes
                                   /\ lisa.rp_map_locs[rows[p]] =
                                        all_genes[lisa.factor[f].gene].location}
                      IN  IF at = {} THEN column[f] = NA
                          ELSE \E p \in at : column[f] = ZScore(z[p])

\* ------------------------------------------------- C17
RECURSIVE TotalLen(_)
TotalLen(columns) ==
  IF Len(columns) = 0 THEN 0 ELSE Len(Head(columns)) + TotalLen(Tail(columns))

RECURSIVE TotalEntries(_)
TotalEntries(columns) ==
  IF Len(columns) = 0 THEN 0 ELSE Cardinality(Head(columns)) + TotalEntries(Tail(columns))

\* C17: for N >= 0 columns with valid indices, ragged_array_to_sparse_matrix
\* returns a matrix of shape (col_length, N) that stores as many entries as
\* the columns give values, column j holding exactly the pairs
\* (indices[j][k], values[j][k]).
C17_SparseEntries ==
  call.op = "ragged_array_to_sparse_matrix" =>
    /\ call.exc = "none"
    /\ ret.shape = <<call.col_length, Len(call.indices)>>
    /\ TotalEntries(ret.columns) = TotalLen(call.values)
    /\ \A j \in DOMAIN call.indices :
         {<<e.row, e.val>> : e \in ret.columns[j]} =
           {<<call.indices[j][k], call.values[j][k]>> : k \in DOMAIN call.indices[j]}

\* ------------------------------------------------- C18
\* C18: update_column on a column that the call before it added leaves the
\* headers as the add left them and the number of rows unchanged.
C18_UpdateAfterAdd ==
  [][(call'.op = "update_column" /\ call'.after_add) =>
       /\ results_headers' = results_headers
       /\ Len(results_rows') = Len(results_rows)]_vars

\* C18 witness: update_column returned on a column added by the call before,
\* in a table with rows.
C18_Witness ==
  /\ call.op = "update_column" /\ call.after_add
  /\ call.exc = "none"
  /\ Len(results_rows) >= 2
  /\ Len(results_headers) >= 2

\* ------------------------------------------------- C19
\* C19: a table returned by subset or filter_rows is independent of its
\* source: add_column, update_column or sortby on the returned table leaves
\* the source's headers and rows unchanged, and the same calls on the source
\* leave the returned table unchanged.
C19_SubsetIndependent ==
  [][(Kept /\ call'.op \in {"add_column", "update_column", "sortby"}) =>
       /\ call'.target = "returned" =>
            (results_headers' = results_headers /\ results_rows' = results_rows)
       /\ call'.target = "source" => ret' = ret]_vars

====
